---- MODULE Spec2Model ----
(***************************************************************************)
(* navigation_collision_checker_node: a velocity command filter.  Each     *)
(* command on cmd_vel_raw is rolled out over p_roll_out_steps_ predicted   *)
(* poses; the command is republished on cmd_vel_safe unchanged, or zeroed  *)
(* when a predicted pose collides with the planning scene.                 *)
(*                                                                         *)
(* Numbers are fixed point: lengths in decimetres, time in seconds,        *)
(* angles in units of 1/AngleScale rad, sines and cosines scaled by        *)
(* TrigScale.  ros::spin() runs the callbacks one at a time, so a callback *)
(* other than the running twistCallback is taken only when pc = "idle".    *)
(***************************************************************************)
EXTENDS Integers, Sequences, FiniteSets, TLC

\* ------------------------------------------------------------------ bounds
MaxSteps == 2

\* iterations after which a loop that has not ended is no longer followed
MaxIter == MaxSteps + 1

\* ------------------------------------------------------- fixed-point units
AngleScale == 20000
TrigScale == 20000
EighthTurn == 15708
FullTurn == 8 * EighthTurn
QuarterTurn == 2 * EighthTurn
CellSize == 20

\* std::abs(msg.angular.z) < 0.0001, in units of 1/AngleScale rad
Epsilon == 2

\* the double that 0.0 / 0.0 yields
NaN == -1000000000

IsNaN(a) == a = NaN

Abs(a) == IF a < 0 THEN -a ELSE a

\* IEEE arithmetic on the fixed-point values: NaN is absorbing
Add(a, b) == IF IsNaN(a) \/ IsNaN(b) THEN NaN ELSE a + b

Sub(a, b) == IF IsNaN(a) \/ IsNaN(b) THEN NaN ELSE a - b

Mul(a, b) == IF IsNaN(a) \/ IsNaN(b) THEN NaN ELSE a * b

\* a / b rounded toward zero; 0 / 0 is NaN
Quot(a, b) ==
    IF IsNaN(a) \/ IsNaN(b) THEN NaN
    ELSE IF b = 0 THEN NaN
    ELSE IF (a >= 0) = (b > 0) THEN Abs(a) \div Abs(b)
    ELSE -(Abs(a) \div Abs(b))

\* a product of two values scaled by TrigScale, rescaled
Scaled(a, b) == Quot(Mul(a, b), TrigScale)

NormAngle(a) == a % FullTurn

\* cosine and sine of the multiples of an eighth turn, scaled by TrigScale
TrigTable ==
    <<  <<20000, 0>>, <<14142, 14142>>, <<0, 20000>>, <<-14142, 14142>>,
        <<-20000, 0>>, <<-14142, -14142>>, <<0, -20000>>, <<14142, -14142>> >>

\* <<cos a, sin a>>: exact at the multiples of an eighth turn, first order
\* in the remainder around the nearest one
CosSin(a) ==
    LET n == NormAngle(a)
        q == (n + EighthTurn \div 2) \div EighthTurn
        r == n - q * EighthTurn
        t == TrigTable[(q % 8) + 1]
    IN  << t[1] - Scaled(t[2], r), t[2] + Scaled(t[1], r) >>

Cos(a) == CosSin(a)[1]

Sin(a) == CosSin(a)[2]

\* ------------------------------------------------------------------ poses
\* Eigen::Affine3d restricted to rotations about z: the translation and the
\* heading th of the rotation
Affine(x, y, z, th) == [x |-> x, y |-> y, z |-> z, th |-> NormAngle(th)]

\* Eigen::Quaterniond(rotation matrix) of a rotation about z by th, as
\* <<x, y, z, w>>: w >= 0 where the trace 1 + 2 cos th is positive, and
\* z >= 0 elsewhere
Quaternion(th) ==
    LET n == NormAngle(th)
        h == IF 2 * n > FullTurn THEN n - FullTurn ELSE n
        half == Quot(h, 2)
    IN  IF 2 * Cos(h) > -TrigScale \/ h >= 0
        THEN <<0, 0, Sin(half), Cos(half)>>
        ELSE <<0, 0, -Sin(half), -Cos(half)>>

\* headings a robot_pose message carries
PoseHeadings == {0, QuarterTurn}

\* the rotation of a unit quaternion <<x, y, z, w>> about z, as a heading
HeadingOf(q) == CHOOSE th \in PoseHeadings : Quaternion(th) = q

\* geometry_msgs::Pose
PoseMsg(x, y, z, th) == [position |-> <<x, y, z>>, orientation |-> Quaternion(th)]

\* tf::poseMsgToEigen
poseMsgToEigen(m) ==
    Affine(m.position[1], m.position[2], m.position[3], HeadingOf(m.orientation))

\* tf::poseEigenToMsg
poseEigenToMsg(e) ==
    [position |-> <<e.x, e.y, e.z>>, orientation |-> Quaternion(e.th)]

\* Eigen: a * b for two transforms, b's translation rotated into a's frame
Compose(a, b) ==
    LET cs == CosSin(a.th)
    IN  [x  |-> Add(a.x, Sub(Scaled(cs[1], b.x), Scaled(cs[2], b.y))),
         y  |-> Add(a.y, Add(Scaled(cs[2], b.x), Scaled(cs[1], b.y))),
         z  |-> Add(a.z, Add(Add(Mul(0, b.x), Mul(0, b.y)), b.z)),
         th |-> NormAngle(a.th + b.th)]

\* Eigen::AngleAxisd(th, UnitZ) * Eigen::Translation3d(x, y, 0.0)
RotThenTranslate(th, x, y) ==
    Compose(Affine(0, 0, 0, th), Affine(x, y, 0, 0))

\* ------------------------------------------------------------------ twists
\* geometry_msgs::Twist
Twist(lx, ly, lz, ax, ay, az) ==
    [linear  |-> [x |-> lx, y |-> ly, z |-> lz],
     angular |-> [x |-> ax, y |-> ay, z |-> az]]

\* mutant of integrateTwist: the straight branch moves by linear.x, whatever
\* the step time
integrateTwistStraightUnscaled(msg, step_time) ==
    IF Abs(msg.angular.z) < Epsilon
    THEN RotThenTranslate(0, msg.linear.x, 0)
    ELSE LET dist_change  == Mul(msg.linear.x, step_time)
             angle_change == Mul(msg.angular.z, step_time)
             arc_radius   == Quot(Mul(dist_change, AngleScale), angle_change)
         IN  RotThenTranslate(
                 angle_change,
                 Scaled(Sin(angle_change), arc_radius),
                 Sub(arc_radius, Scaled(Cos(angle_change), arc_radius)))

\* mutant of integrateTwist: the arc branch leaves the heading as it was
integrateTwistArcUnturned(msg, step_time) ==
    IF Abs(msg.angular.z) < Epsilon
    THEN RotThenTranslate(0, Mul(msg.linear.x, step_time), 0)
    ELSE LET dist_change  == Mul(msg.linear.x, step_time)
             angle_change == Mul(msg.angular.z, step_time)
             arc_radius   == Quot(Mul(dist_change, AngleScale), angle_change)
         IN  RotThenTranslate(
                 0,
                 Scaled(Sin(angle_change), arc_radius),
                 Sub(arc_radius, Scaled(Cos(angle_change), arc_radius)))

\* NavCollisionChecker::integrateTwist
integrateTwist(msg, step_time) ==
    IF Abs(msg.angular.z) < Epsilon
    THEN RotThenTranslate(0, Mul(msg.linear.x, step_time), 0)
    ELSE LET dist_change  == Mul(msg.linear.x, step_time)
             angle_change == Mul(msg.angular.z, step_time)
             arc_radius   == Quot(Mul(dist_change, AngleScale), angle_change)
         IN  RotThenTranslate(
                 angle_change,
                 Scaled(Sin(angle_change), arc_radius),
                 Sub(arc_radius, Scaled(Cos(angle_change), arc_radius)))

\* ------------------------------------------------ robot state and the scene
VirtualNames ==
    << "world_virtual_joint/trans_x", "world_virtual_joint/trans_y",
       "world_virtual_joint/trans_z", "world_virtual_joint/rot_x",
       "world_virtual_joint/rot_y", "world_virtual_joint/rot_z",
       "world_virtual_joint/rot_w" >>

VirtualSet == {VirtualNames[j] : j \in 1..7}

\* the variables of the robot model: the floating base and one arm joint
VariableNames == VirtualSet \cup {"arm_joint"}

\* sensor_msgs::JointState
JointState(names, positions) == [name |-> names, position |-> positions]

\* mutant of jointStateToRobotState: the variables the message does not name
\* are reset
jointStateToRobotStateReset(js, state) ==
    IF Len(js.name) # Len(js.position) THEN state
    ELSE [n \in DOMAIN state |->
            IF \E j \in 1..Len(js.name) : js.name[j] = n
            THEN js.position[CHOOSE j \in 1..Len(js.name) :
                                /\ js.name[j] = n
                                /\ \A k \in (j + 1)..Len(js.name) : js.name[k] # n]
            ELSE 0]

\* moveit::core::jointStateToRobotState: every named variable takes the
\* message's value, the others keep theirs
jointStateToRobotState(js, state) ==
    IF Len(js.name) # Len(js.position) THEN state
    ELSE [n \in DOMAIN state |->
            IF \E j \in 1..Len(js.name) : js.name[j] = n
            THEN js.position[CHOOSE j \in 1..Len(js.name) :
                                /\ js.name[j] = n
                                /\ \A k \in (j + 1)..Len(js.name) : js.name[k] # n]
            ELSE state[n]]

NonVirtual(state) == [n \in (DOMAIN state) \ VirtualSet |-> state[n]]

VirtualSlice(state) == [j \in 1..7 |-> state[VirtualNames[j]]]

Cell(v) == v \div CellSize

\* the cells the robot occupies: the base, and the level above it when the
\* arm is raised
Footprint(state) ==
    LET cx == Cell(state["world_virtual_joint/trans_x"])
        cy == Cell(state["world_virtual_joint/trans_y"])
    IN  {<<cx, cy, 0>>} \cup (IF state["arm_joint"] = 1 THEN {<<cx, cy, 1>>} ELSE {})

\* planning_scene_->checkCollision into a CollisionResult constructed with
\* collision = false.  A query that cannot be completed leaves the result as
\* constructed; what the engine answers for a NaN translation depends on the
\* world only.
checkCollision(scene, state) ==
    IF \/ IsNaN(state["world_virtual_joint/trans_x"])
       \/ IsNaN(state["world_virtual_joint/trans_y"])
    THEN [collision |-> scene.nan_collides, completed |-> TRUE]
    ELSE IF Footprint(state) \cap scene.faulty # {}
    THEN [collision |-> FALSE, completed |-> FALSE]
    ELSE [collision |-> Footprint(state) \cap scene.occupied # {}, completed |-> TRUE]

\* ------------------------------------------------------------------ inputs
Scene(occ, bad, nan) == [occupied |-> occ, faulty |-> bad, nan_collides |-> nan]

EmptyScene == Scene({}, {}, FALSE)

\* octomap messages
Octomaps ==
    { EmptyScene,
      Scene({<<1, 0, 0>>, <<0, 3, 0>>, <<-2, 0, 0>>}, {}, TRUE),
      Scene({<<3, 0, 0>>, <<1, 0, 1>>}, {<<2, 0, 0>>}, FALSE) }

\* robot_pose messages
PoseMsgs == { PoseMsg(0, 0, 0, 0), PoseMsg(10, 20, 0, QuarterTurn) }

\* joint_states messages
JointStateMsgs ==
    { JointState(<<"arm_joint">>, <<0>>),
      JointState(<<"arm_joint">>, <<1>>),
      JointState(<<"world_virtual_joint/trans_x">>, <<25>>) }

\* cmd_vel_raw messages: an eighth turn per second, every field set with an
\* angular rate below Epsilon, and backwards at -Epsilon
TwistMsgs ==
    { Twist(10, 0, 0, 0, 0, EighthTurn),
      Twist(10, 3, 4, 5, 6, 1),
      Twist(-10, 0, 0, 0, 0, -Epsilon) }

\* NavCollisionCheckerConfig values the reconfigure server hands over
Configs ==
    [roll_out_step_time : {0, 2},
     roll_out_steps     : (-1)..MaxSteps,
     pass_through       : BOOLEAN]

\* ------------------------------------------------------------------- state
VARIABLES
    \* NavCollisionChecker members
    p_roll_out_step_time_, p_roll_out_steps_, p_pass_through_,
    robot_pose_ptr_, robot_state_, planning_scene_,
    virtual_link_joint_states_, marker_array_,
    \* whether robot_model_ holds a model, and the robot_pose message delivered
    \* last
    robot_model_, robot_pose,
    \* twistCallback: position and locals
    pc, twist_out, step_time, test_pose, pose_change, i,
    \* the callback that ran last, if it was a twistCallback: its message, what
    \* it published and queried, and the return it took
    msg, cmd_vel_safe, nav_collision_check_markers, queries, path,
    \* the result of the rollout before it, if that ran right before it on the
    \* same message
    prev

members ==
    << p_roll_out_step_time_, p_roll_out_steps_, p_pass_through_,
       robot_pose_ptr_, robot_state_, planning_scene_,
       virtual_link_joint_states_, marker_array_, robot_model_, robot_pose >>

config == << p_roll_out_step_time_, p_roll_out_steps_, p_pass_through_ >>

locals == << pc, twist_out, step_time, test_pose, pose_change, i >>

observed == << msg, cmd_vel_safe, nav_collision_check_markers, queries, path, prev >>

vars == << members, locals, observed >>

ZeroTwist == Twist(0, 0, 0, 0, 0, 0)

ZeroPose == Affine(0, 0, 0, 0)

\* a null geometry_msgs::PoseStampedConstPtr, and one that holds a message
NullPtr == [null |-> TRUE, pose |-> PoseMsg(0, 0, 0, 0)]

PtrTo(m) == [null |-> FALSE, pose |-> m]

NoPrev == [valid |-> FALSE, out |-> <<>>, first |-> 0]

\* the step at which the last rollout was blocked, 0 when it was not
FirstColliding == IF path = "blocked" THEN Len(queries) ELSE 0

\* NavCollisionChecker::dynRecParamCallback
ApplyConfig(cfg) ==
    /\ p_roll_out_step_time_' = cfg.roll_out_step_time
    /\ p_roll_out_steps_' = cfg.roll_out_steps
    /\ p_pass_through_' = cfg.pass_through

\* mutant of ExitOnLoadFailure: the loaded model is not tested
NeverExit == FALSE

\* if (!robot_model_.get()) ... exit(0)
ExitOnLoadFailure == ~robot_model_

\* state after NavCollisionChecker::NavCollisionChecker(): setCallback has
\* called dynRecParamCallback with the server's configuration; the values of
\* the new RobotState are not initialised.  When the model could not be
\* loaded the process has exited before the subscriptions were made.
Init ==
    /\ robot_model_ \in BOOLEAN
    /\ robot_pose = NullPtr
    /\ \E cfg \in Configs :
          /\ p_roll_out_step_time_ = cfg.roll_out_step_time
          /\ p_roll_out_steps_ = cfg.roll_out_steps
          /\ p_pass_through_ = cfg.pass_through
    /\ robot_pose_ptr_ = NullPtr
    /\ \E a \in {0, 1}, v \in {0, 7} :
          robot_state_ = [n \in VariableNames |-> IF n = "arm_joint" THEN a ELSE v]
    /\ planning_scene_ = EmptyScene
    /\ virtual_link_joint_states_ = JointState(VirtualNames, <<0, 0, 0, 0, 0, 0, 0>>)
    /\ marker_array_ = <<>>
    /\ pc = IF ExitOnLoadFailure THEN "exited" ELSE "idle"
    /\ msg = ZeroTwist
    /\ twist_out = ZeroTwist
    /\ step_time = 0
    /\ test_pose = ZeroPose
    /\ pose_change = ZeroPose
    /\ i = 0
    /\ cmd_vel_safe = <<>>
    /\ nav_collision_check_markers = <<>>
    /\ queries = <<>>
    /\ path = "none"
    /\ prev = NoPrev

\* ------------------------------------------------------- the other handlers
\* another callback ran last: nothing is recorded of it
Forget ==
    /\ msg' = ZeroTwist
    /\ cmd_vel_safe' = <<>>
    /\ nav_collision_check_markers' = <<>>
    /\ queries' = <<>>
    /\ path' = "none"
    /\ prev' = NoPrev

\* mutant of octomapCallback: delivered from a second thread, at any point of
\* a twistCallback
octomapCallbackConcurrent(m) ==
    /\ pc # "exited"
    /\ planning_scene_' = m
    /\ UNCHANGED << config, robot_pose_ptr_, robot_state_,
                    virtual_link_joint_states_, marker_array_,
                    robot_model_, robot_pose, locals, observed >>

\* NavCollisionChecker::octomapCallback
octomapCallback(m) ==
    /\ pc = "idle"
    /\ planning_scene_' = m
    /\ Forget
    /\ UNCHANGED << config, robot_pose_ptr_, robot_state_,
                    virtual_link_joint_states_, marker_array_,
                    robot_model_, robot_pose, locals >>

\* mutant of robotPoseCallback: the first pose received is kept
robotPoseCallbackKeepFirst(m) ==
    /\ pc = "idle"
    /\ robot_pose' = PtrTo(m)
    /\ robot_pose_ptr_' = IF robot_pose_ptr_.null THEN PtrTo(m) ELSE robot_pose_ptr_
    /\ Forget
    /\ UNCHANGED << config, robot_state_, planning_scene_,
                    virtual_link_joint_states_, marker_array_,
                    robot_model_, locals >>

\* NavCollisionChecker::robotPoseCallback
robotPoseCallback(m) ==
    /\ pc = "idle"
    /\ robot_pose' = PtrTo(m)
    /\ robot_pose_ptr_' = PtrTo(m)
    /\ Forget
    /\ UNCHANGED << config, robot_state_, planning_scene_,
                    virtual_link_joint_states_, marker_array_,
                    robot_model_, locals >>

\* NavCollisionChecker::jointStatesCallback
jointStatesCallback(m) ==
    /\ pc = "idle"
    /\ robot_state_' = jointStateToRobotState(m, robot_state_)
    /\ Forget
    /\ UNCHANGED << config, robot_pose_ptr_, planning_scene_,
                    virtual_link_joint_states_, marker_array_,
                    robot_model_, robot_pose, locals >>

\* mutant of dynRecParamCallback: delivered from a second thread, at any point
\* of a twistCallback
dynRecParamCallbackConcurrent(cfg) ==
    /\ pc # "exited"
    /\ ApplyConfig(cfg)
    /\ UNCHANGED << robot_pose_ptr_, robot_state_, planning_scene_,
                    virtual_link_joint_states_, marker_array_,
                    robot_model_, robot_pose, locals, observed >>

\* NavCollisionChecker::dynRecParamCallback, called by the reconfigure server
dynRecParamCallback(cfg) ==
    /\ pc = "idle"
    /\ ApplyConfig(cfg)
    /\ Forget
    /\ UNCHANGED << robot_pose_ptr_, robot_state_, planning_scene_,
                    virtual_link_joint_states_, marker_array_,
                    robot_model_, robot_pose, locals >>

\* ----------------------------------------------------------- twistCallback
\* mutant of SizeLess: i <= p_roll_out_steps_
SizeLessOrEqual(k, n) == IF n >= 0 THEN k <= n ELSE TRUE

\* mutant of SizeLess: the condition tested after the body, as in a do-while
SizeLessAfterBody(k, n) == IF n >= 0 THEN k < n \/ k = 0 ELSE TRUE

\* i < p_roll_out_steps_ with i a size_t and the bound an int: the bound is
\* converted to size_t, so a negative bound n is 2^64 + n, above every count
\* of the loop
SizeLess(k, n) == IF n >= 0 THEN k < n ELSE TRUE

\* mutant of Stop: the angular fields are left as received
StopLinearOnly(t) ==
    [t EXCEPT !.linear.x = 0, !.linear.y = 0, !.linear.z = 0]

\* mutant of Stop: the linear fields are halved, not zeroed
SlowDown(t) ==
    [t EXCEPT !.linear.x = t.linear.x \div 2, !.linear.y = 0, !.linear.z = 0,
              !.angular.x = 0, !.angular.y = 0, !.angular.z = 0]

\* the six assignments of 0.0 to twist_out
Stop(t) ==
    [t EXCEPT !.linear.x = 0, !.linear.y = 0, !.linear.z = 0,
              !.angular.x = 0, !.angular.y = 0, !.angular.z = 0]

\* NavCollisionChecker::addMarker
addMarker(markers, pose, count) ==
    Append(markers, [id |-> count, ns |-> "nav_coll_check", pose |-> poseEigenToMsg(pose)])

\* isInCollision: the positions written to virtual_link_joint_states_
VirtualLinkPositions(pose) ==
    LET quat == Quaternion(pose.th)
    IN  << pose.x, pose.y, pose.z, quat[1], quat[2], quat[3], quat[4] >>

\* mutant of isInCollision: the query is made before the virtual link written
\* for this pose is merged into the robot state
isInCollisionBeforeMerge(pose) ==
    LET vl    == [virtual_link_joint_states_ EXCEPT !.position = VirtualLinkPositions(pose)]
        stale == jointStateToRobotState(virtual_link_joint_states_, robot_state_)
    IN  [virtual_link |-> vl,
         robot_state  |-> jointStateToRobotState(vl, robot_state_),
         result       |-> checkCollision(planning_scene_, stale)]

\* NavCollisionChecker::isInCollision: the virtual link it writes, the robot
\* state it merges it into, and the result of the query on that state
isInCollision(pose) ==
    LET vl    == [virtual_link_joint_states_ EXCEPT !.position = VirtualLinkPositions(pose)]
        state == jointStateToRobotState(vl, robot_state_)
    IN  [virtual_link |-> vl,
         robot_state  |-> state,
         result       |-> checkCollision(planning_scene_, state)]

\* mutant of PassThrough: the flag is not consulted
PassThroughIgnored == FALSE

\* if (p_pass_through_)
PassThrough == p_pass_through_

\* mutant of NoPose: the pointer is not tested
NoPoseIgnored == FALSE

\* if (!robot_pose_ptr_.get())
NoPose == robot_pose_ptr_.null

\* mutant of ClearMarkers: the markers of the rollout before are kept
KeepMarkers(markers) == markers

\* marker_array_.markers.clear()
ClearMarkers(markers) == <<>>

\* the handler returns: its locals are gone
Return ==
    /\ pc' = "idle"
    /\ twist_out' = ZeroTwist
    /\ step_time' = 0
    /\ test_pose' = ZeroPose
    /\ pose_change' = ZeroPose
    /\ i' = 0

\* mutant of twistCallback: the stored markers are cleared before the two
\* forwarding tests
twistCallbackClearFirst(m) ==
    /\ pc = "idle"
    /\ msg' = m
    /\ prev' = IF m = msg /\ path \in {"blocked", "clear"}
               THEN [valid |-> TRUE, out |-> cmd_vel_safe, first |-> FirstColliding]
               ELSE NoPrev
    /\ queries' = <<>>
    /\ nav_collision_check_markers' = <<>>
    /\ marker_array_' = ClearMarkers(marker_array_)
    /\ IF PassThrough
       THEN /\ cmd_vel_safe' = <<m>>
            /\ path' = "pass_through"
            /\ Return
       ELSE IF NoPose
       THEN /\ cmd_vel_safe' = <<m>>
            /\ path' = "no_pose"
            /\ Return
       ELSE /\ twist_out' = m
            /\ step_time' = p_roll_out_step_time_
            /\ test_pose' = poseMsgToEigen(robot_pose_ptr_.pose)
            /\ pose_change' = integrateTwist(m, p_roll_out_step_time_)
            /\ i' = 0
            /\ pc' = "loop"
            /\ cmd_vel_safe' = <<>>
            /\ path' = "rollout"
    /\ UNCHANGED << config, robot_pose_ptr_, robot_state_, planning_scene_,
                    virtual_link_joint_states_, robot_model_, robot_pose >>

\* twistCallback up to the loop: the two forwarding returns, or the set-up
\* of the rollout
twistCallback(m) ==
    /\ pc = "idle"
    /\ msg' = m
    /\ prev' = IF m = msg /\ path \in {"blocked", "clear"}
               THEN [valid |-> TRUE, out |-> cmd_vel_safe, first |-> FirstColliding]
               ELSE NoPrev
    /\ queries' = <<>>
    /\ nav_collision_check_markers' = <<>>
    /\ IF PassThrough
       THEN /\ cmd_vel_safe' = <<m>>
            /\ path' = "pass_through"
            /\ Return
            /\ UNCHANGED marker_array_
       ELSE IF NoPose
       THEN /\ cmd_vel_safe' = <<m>>
            /\ path' = "no_pose"
            /\ Return
            /\ UNCHANGED marker_array_
       ELSE /\ twist_out' = m
            /\ step_time' = p_roll_out_step_time_
            /\ test_pose' = poseMsgToEigen(robot_pose_ptr_.pose)
            /\ pose_change' = integrateTwist(m, p_roll_out_step_time_)
            /\ marker_array_' = ClearMarkers(marker_array_)
            /\ i' = 0
            /\ pc' = "loop"
            /\ cmd_vel_safe' = <<>>
            /\ path' = "rollout"
    /\ UNCHANGED << config, robot_pose_ptr_, robot_state_, planning_scene_,
                    virtual_link_joint_states_, robot_model_, robot_pose >>

\* one evaluation of the loop condition, with the iteration or the
\* publications after the loop that follow it
RolloutStep ==
    /\ pc = "loop"
    /\ IF SizeLess(i, p_roll_out_steps_)
       THEN LET pose    == Compose(test_pose, pose_change)
                markers == addMarker(marker_array_, pose, i)
                check   == isInCollision(pose)
            IN  /\ i < MaxIter
                /\ marker_array_' = markers
                /\ virtual_link_joint_states_' = check.virtual_link
                /\ robot_state_' = check.robot_state
                /\ queries' = Append(queries, [pose      |-> pose,
                                               collision |-> check.result.collision,
                                               completed |-> check.result.completed])
                /\ IF check.result.collision
                   THEN /\ cmd_vel_safe' = Append(cmd_vel_safe, Stop(twist_out))
                        /\ nav_collision_check_markers' =
                               Append(nav_collision_check_markers, markers)
                        /\ path' = "blocked"
                        /\ Return
                   ELSE /\ test_pose' = pose
                        /\ i' = i + 1
                        /\ UNCHANGED << pc, twist_out, step_time, pose_change,
                                        cmd_vel_safe, nav_collision_check_markers, path >>
       ELSE /\ nav_collision_check_markers' =
                   Append(nav_collision_check_markers, marker_array_)
            /\ cmd_vel_safe' = Append(cmd_vel_safe, twist_out)
            /\ path' = "clear"
            /\ Return
            /\ UNCHANGED << marker_array_, virtual_link_joint_states_,
                            robot_state_, queries >>
    /\ UNCHANGED << config, robot_pose_ptr_, planning_scene_,
                    robot_model_, robot_pose, msg, prev >>

\* ros::spin(): one callback at a time, in any order
Next ==
    \/ \E m \in Octomaps : octomapCallback(m)
    \/ \E m \in PoseMsgs : robotPoseCallback(m)
    \/ \E m \in JointStateMsgs : jointStatesCallback(m)
    \/ \E cfg \in Configs : dynRecParamCallback(cfg)
    \/ \E m \in TwistMsgs : twistCallback(m)
    \/ RolloutStep

Spec == Init /\ [][Next]_vars

\* ================================================================== claims
\* a twistCallback has just returned: the members it read are as it read them
Returned == pc = "idle" /\ path \in {"pass_through", "no_pose", "blocked", "clear"}

\* the rollout was entered: pass_through was false and a pose had been received
RolledOut == Returned /\ ~p_pass_through_ /\ ~robot_pose_ptr_.null

Zeroed(t) ==
    /\ t.linear.x = 0 /\ t.linear.y = 0 /\ t.linear.z = 0
    /\ t.angular.x = 0 /\ t.angular.y = 0 /\ t.angular.z = 0

\* the pose predicted for step k of a rollout of msg from the last known pose
RECURSIVE PredictedPose(_)
PredictedPose(k) ==
    IF k = 0 THEN poseMsgToEigen(robot_pose_ptr_.pose)
    ELSE Compose(PredictedPose(k - 1), integrateTwist(msg, p_roll_out_step_time_))

\* the answer of the collision query for the robot placed at the pose of step k
StepQuery(k) ==
    checkCollision(planning_scene_,
                   jointStateToRobotState(
                       JointState(VirtualNames, VirtualLinkPositions(PredictedPose(k))),
                       robot_state_))

StepCollides(k) == StepQuery(k).collision

\* the first step of the horizon reported as colliding, 0 when there is none
FirstCollidingStep ==
    IF \E k \in 1..p_roll_out_steps_ : StepCollides(k)
    THEN CHOOSE k \in 1..p_roll_out_steps_ :
            StepCollides(k) /\ \A j \in 1..(k - 1) : ~StepCollides(j)
    ELSE 0

\* C1: when pass_through is false, a pose has been received and the first step
\* of the horizon that the collision query reports as colliding is step k, the
\* one command published has its six fields zero and exactly k queries were made.
C1_BlockedAtFirstCollidingStep ==
    (RolledOut /\ FirstCollidingStep >= 1)
        => /\ Len(cmd_vel_safe) = 1
           /\ Zeroed(cmd_vel_safe[1])
           /\ Len(queries) = FirstCollidingStep
           /\ path = "blocked"

C1_Witness ==
    /\ RolledOut
    /\ FirstCollidingStep = 1
    /\ p_roll_out_steps_ > FirstCollidingStep
    /\ ~Zeroed(msg)
    /\ Len(queries) = 1
    /\ Zeroed(cmd_vel_safe[1])

\* C2: when pass_through is false, a pose has been received and no step of a
\* horizon of p_roll_out_steps_ >= 0 steps is reported as colliding, the one
\* command published equals the input in every field and exactly
\* p_roll_out_steps_ queries were made.
C2_ClearForwardsCommand ==
    (RolledOut /\ p_roll_out_steps_ >= 0 /\ FirstCollidingStep = 0)
        => /\ cmd_vel_safe = <<msg>>
           /\ Len(queries) = p_roll_out_steps_
           /\ path = "clear"

C2_Witness ==
    /\ RolledOut
    /\ p_roll_out_steps_ = MaxSteps
    /\ FirstCollidingStep = 0
    /\ planning_scene_.occupied # {}
    /\ cmd_vel_safe = <<msg>>

\* C3: with pass_through true the command is published unchanged, with or
\* without a pose and whatever the rollout would find, and neither the pose
\* check nor a collision query is reached.
C3_PassThroughForwards ==
    (Returned /\ p_pass_through_)
        => /\ cmd_vel_safe = <<msg>>
           /\ queries = <<>>
           /\ path = "pass_through"

C3_Witness ==
    /\ Returned
    /\ p_pass_through_
    /\ ~robot_pose_ptr_.null
    /\ p_roll_out_steps_ >= 1
    /\ StepCollides(1)
    /\ cmd_vel_safe = <<msg>>
    /\ ~Zeroed(msg)

\* C4: while no pose has been received, the command is published unchanged,
\* whatever the scene, the joints and p_roll_out_steps_ are.
C4_NoPoseForwards ==
    (Returned /\ robot_pose_ptr_.null)
        => /\ cmd_vel_safe = <<msg>>
           /\ queries = <<>>
           /\ path \in {"pass_through", "no_pose"}

C4_Witness ==
    /\ Returned
    /\ robot_pose_ptr_.null
    /\ ~p_pass_through_
    /\ p_roll_out_steps_ >= 1
    /\ planning_scene_.occupied # {}
    /\ path = "no_pose"
    /\ cmd_vel_safe = <<msg>>
    /\ ~Zeroed(msg)

\* C5: with p_roll_out_steps_ = 0, pass_through false and a pose received, the
\* command is published unchanged on the clear return and no query is made.
C5_ZeroHorizonClear ==
    (RolledOut /\ p_roll_out_steps_ = 0)
        => /\ cmd_vel_safe = <<msg>>
           /\ path = "clear"
           /\ queries = <<>>

C5_Witness ==
    /\ RolledOut
    /\ p_roll_out_steps_ = 0
    /\ StepCollides(1)
    /\ cmd_vel_safe = <<msg>>
    /\ ~Zeroed(msg)

\* C6: a twistCallback publishes nothing before it returns and has published
\* exactly one command when it returns, on each of its four returns, and that
\* command is the input field for field or has its six fields zero.
C6_OneOutputEqualOrZero ==
    /\ pc = "loop" => cmd_vel_safe = <<>>
    /\ Returned => /\ Len(cmd_vel_safe) = 1
                   /\ cmd_vel_safe[1] = msg \/ Zeroed(cmd_vel_safe[1])

C6_Witness ==
    /\ Returned
    /\ path = "blocked"
    /\ Len(cmd_vel_safe) = 1
    /\ Zeroed(cmd_vel_safe[1])
    /\ cmd_vel_safe[1] # msg

\* C7: the marker array a rollout publishes holds the poses predicted in that
\* rollout and nothing else, in step order with ids 0, 1, 2, ...: k of them
\* when the rollout is blocked at step k, p_roll_out_steps_ when it is clear.
C7_MarkersAreThisRollout ==
    (Returned /\ path \in {"blocked", "clear"})
        => /\ nav_collision_check_markers = <<marker_array_>>
           /\ Len(marker_array_) = Len(queries)
           /\ path = "clear" => Len(marker_array_) = p_roll_out_steps_
           /\ path = "blocked" => Len(marker_array_) = FirstColliding
           /\ \A k \in 1..Len(marker_array_) :
                 /\ marker_array_[k].id = k - 1
                 /\ marker_array_[k].pose = poseEigenToMsg(PredictedPose(k))

\* the second of two rollouts in a row: the array held two markers when it began
C7_Witness ==
    /\ Returned
    /\ prev.valid
    /\ path = "blocked"
    /\ Len(nav_collision_check_markers) = 1
    /\ Len(nav_collision_check_markers[1]) = 2
    /\ nav_collision_check_markers[1][2].pose # nav_collision_check_markers[1][1].pose

\* C8: a rollout run right after a rollout of the same message, with the pose,
\* the joints other than the virtual link, the scene and the configuration
\* unchanged, publishes the same command and is blocked at the same step,
\* although the first left the virtual link and the markers modified.
C8_RepeatedRolloutAgrees ==
    (Returned /\ prev.valid)
        => /\ cmd_vel_safe = prev.out
           /\ FirstColliding = prev.first

C8_Witness ==
    /\ Returned
    /\ prev.valid
    /\ prev.first = 2
    /\ FirstColliding = 2
    /\ marker_array_ # <<>>
    /\ virtual_link_joint_states_.position = VirtualLinkPositions(PredictedPose(2))

\* C9 (as claimed): an update with roll_out_step_time <= 0 or with negative
\* roll_out_steps is rejected, so a valid stored configuration stays valid.
ValidConfig == p_roll_out_step_time_ > 0 /\ p_roll_out_steps_ >= 0

C9_InvalidUpdateRejected == [][ValidConfig => ValidConfig']_vars

\* C10 (as claimed): a rollout in which a collision query could not be
\* completed publishes the zero command.
C10_QueryFailureFailsClosed ==
    (Returned /\ \E k \in 1..Len(queries) : ~queries[k].completed)
        => /\ Len(cmd_vel_safe) = 1
           /\ Zeroed(cmd_vel_safe[1])

\* a twistCallback is between its set-up and its return
InRollout == pc = "loop"

\* C11: a configuration update never takes effect inside a rollout: while a
\* rollout is in progress pass_through is the false value that was tested, the
\* step time in use is the stored one, and no step changes the stored
\* configuration, so that every evaluation of the loop condition reads the
\* horizon of the same update; an update is applied only between two commands.
C11_ConfigFixedDuringRollout ==
    /\ [](InRollout => ~p_pass_through_ /\ step_time = p_roll_out_step_time_)
    /\ [][InRollout => config' = config]_vars

\* a rollout under a non-default step time has passed its first iteration and
\* evaluates the loop condition again
C11_Witness ==
    /\ InRollout
    /\ i = 1
    /\ Len(queries) = 1
    /\ step_time = 2
    /\ p_roll_out_steps_ = 2

\* C12: a rollout is serialized against every other handler: while it is in
\* progress no step changes the environment, the last known pose, the joint
\* values outside the virtual link or the command being processed, so that
\* all its queries see one environment and one set of joint values.
C12_RolloutSerialized ==
    [][InRollout =>
          /\ planning_scene_' = planning_scene_
          /\ robot_pose_ptr_' = robot_pose_ptr_
          /\ NonVirtual(robot_state_') = NonVirtual(robot_state_)
          /\ msg' = msg]_vars

\* a rollout in an occupied environment is between its first and its second
\* query
C12_Witness ==
    /\ InRollout
    /\ i = 1
    /\ Len(queries) = 1
    /\ planning_scene_ # EmptyScene
    /\ robot_state_["arm_joint"] = 1

\* C13: when the robot model could not be loaded the process has exited in
\* the constructor: no handler has run, no pose was stored, no command was
\* processed and none was emitted.
C13_NoModelNoProcessing ==
    ~robot_model_ =>
        /\ pc = "exited"
        /\ robot_pose_ptr_.null
        /\ robot_pose.null
        /\ msg = ZeroTwist
        /\ cmd_vel_safe = <<>>
        /\ nav_collision_check_markers = <<>>
        /\ queries = <<>>
        /\ path = "none"

\* the process that exited in its constructor
C13_Witness == ~robot_model_ /\ pc = "exited"

\* a rollout of msg was entered and the members it read are as it read them
RolloutSeen == path \in {"rollout", "blocked", "clear"}

\* the last known pose, as the rollout reads it
BasePose == poseMsgToEigen(robot_pose_ptr_.pose)

\* the pose d ahead of p along p's heading
Ahead(p, d) ==
    [x  |-> p.x + Scaled(Cos(p.th), d),
     y  |-> p.y + Scaled(Sin(p.th), d),
     z  |-> p.z,
     th |-> p.th]

\* C14: for a command with |angular.z| below 0.0001 the relative pose change
\* of one step is linear.x * step_time forward with no lateral and no heading
\* change, and the pose queried at step k lies k * linear.x * step_time ahead
\* of the last known pose along its unchanged heading.
C14_StraightLinePrediction ==
    (RolloutSeen /\ Abs(msg.angular.z) < Epsilon)
    => /\ InRollout => pose_change = Affine(msg.linear.x * step_time, 0, 0, 0)
       /\ \A k \in 1..Len(queries) :
              queries[k].pose =
                  Ahead(BasePose, k * msg.linear.x * p_roll_out_step_time_)

\* a command with a small non-zero angular.z was rolled out for two steps of
\* two seconds from the pose that heads along y
C14_Witness ==
    /\ Returned
    /\ path = "clear"
    /\ msg.angular.z = 1
    /\ msg.linear.x = 10
    /\ p_roll_out_step_time_ = 2
    /\ BasePose = Affine(10, 20, 0, QuarterTurn)
    /\ Len(queries) = 2
    /\ queries[2].pose = Affine(10, 60, 0, QuarterTurn)

\* the step makes a collision query
QueryStep == Len(queries') = Len(queries) + 1

\* C15: at every collision query the seven virtual-link values of the robot
\* state are the translation and the quaternion of the pose of that step, and
\* every other joint value is what it was before the pose was written.
C15_QueryWritesVirtualLinkOnly ==
    [][QueryStep =>
          LET p == queries'[Len(queries')].pose
          IN  /\ VirtualSlice(robot_state_') = <<p.x, p.y, p.z>> \o Quaternion(p.th)
              /\ NonVirtual(robot_state_') = NonVirtual(robot_state_)]_vars

\* the second query of a rollout along an arc, at a pose turned by half a
\* turn, with the arm joint away from zero
C15_Witness ==
    /\ Len(queries) = 2
    /\ queries[2].pose.th = 2 * QuarterTurn
    /\ robot_state_["world_virtual_joint/trans_x"] = queries[2].pose.x
    /\ robot_state_["world_virtual_joint/rot_z"] = TrigScale
    /\ robot_state_["world_virtual_joint/rot_w"] = 0
    /\ robot_state_["arm_joint"] = 1

\* C16: a joint-state update changes only joint values outside the virtual
\* link: no step taken between two commands, so no jointStatesCallback
\* whatever names its message carries, changes the seven virtual-link values
\* of the robot state.
C16_JointUpdateKeepsVirtualLink ==
    [][(pc = "idle" /\ pc' = "idle")
          => VirtualSlice(robot_state_') = VirtualSlice(robot_state_)]_vars

\* C17: the last known pose is the robot_pose message delivered last and is
\* never cleared: once a pose was delivered no command returns by the
\* missing-pose path, and every rollout starts from the pose delivered last.
C17_LatestPoseUsed ==
    /\ robot_pose_ptr_ = robot_pose
    /\ (Returned /\ ~robot_pose.null) => path # "no_pose"
    /\ (InRollout /\ i = 0) => test_pose = poseMsgToEigen(robot_pose.pose)
    /\ (RolloutSeen /\ queries # <<>>)
          => queries[1].pose = Compose(poseMsgToEigen(robot_pose.pose),
                                       integrateTwist(msg, p_roll_out_step_time_))

\* a rollout of the straight command has returned after starting from the
\* pose that heads along y
C17_Witness ==
    /\ Returned
    /\ path = "clear"
    /\ robot_pose = PtrTo(PoseMsg(10, 20, 0, QuarterTurn))
    /\ Len(queries) >= 1
    /\ queries[1].pose = Affine(10, 40, 0, QuarterTurn)

\* C18: every rollout ends after at most horizon_steps collision queries,
\* whatever horizon the configuration handler has stored: a rollout never
\* makes more queries than the stored horizon, none when it is not positive.
C18_QueriesWithinHorizon ==
    RolloutSeen
    => Len(queries) <= (IF p_roll_out_steps_ > 0 THEN p_roll_out_steps_ ELSE 0)

\* the pose queried before step k of the rollout, the last known pose for the
\* first step
PoseBefore(k) == IF k = 1 THEN BasePose ELSE queries[k - 1].pose

\* C19: for a command with |angular.z| of 0.0001 or more the heading change of
\* one step is angular.z * step_time, the pose of every step is the pose
\* before it composed on the right with the same relative pose change, and
\* the heading queried at step k is the last known heading plus
\* k * angular.z * step_time.
C19_ArcPrediction ==
    (RolloutSeen /\ Abs(msg.angular.z) >= Epsilon)
    => /\ InRollout => /\ pose_change.th = NormAngle(msg.angular.z * step_time)
                       /\ pose_change = integrateTwist(msg, p_roll_out_step_time_)
       /\ \A k \in 1..Len(queries) :
              /\ queries[k].pose =
                     Compose(PoseBefore(k), integrateTwist(msg, p_roll_out_step_time_))
              /\ queries[k].pose.th =
                     NormAngle(BasePose.th + k * msg.angular.z * p_roll_out_step_time_)
       /\ (path = "clear" /\ p_roll_out_steps_ >= 1)
          => queries[Len(queries)].pose.th =
                 NormAngle(BasePose.th
                           + p_roll_out_steps_ * msg.angular.z * p_roll_out_step_time_)

\* the command that turns an eighth of a turn per second was rolled out for
\* two steps of two seconds from the pose that heads along y: the second
\* query is three quarters of a turn from the x axis
C19_Witness ==
    /\ Returned
    /\ path = "clear"
    /\ msg.angular.z = EighthTurn
    /\ p_roll_out_step_time_ = 2
    /\ BasePose.th = QuarterTurn
    /\ Len(queries) = 2
    /\ queries[1].pose.th = 2 * QuarterTurn
    /\ queries[2].pose.th = 3 * QuarterTurn

\* the step handles a command by one of the two forwarding returns
BypassStep == pc = "idle" /\ path' \in {"pass_through", "no_pose"}

\* C20: a command handled by the pass-through return or by the missing-pose
\* return has no effect besides the command emitted: no collision query is
\* made, the robot state and the virtual-link message are unchanged, the
\* stored markers are unchanged and no markers are published.
C20_BypassHasNoSideEffect ==
    [][BypassStep =>
          /\ cmd_vel_safe' = <<msg'>>
          /\ queries' = <<>>
          /\ nav_collision_check_markers' = <<>>
          /\ robot_state_' = robot_state_
          /\ virtual_link_joint_states_' = virtual_link_joint_states_
          /\ marker_array_' = marker_array_
          /\ planning_scene_' = planning_scene_
          /\ robot_pose_ptr_' = robot_pose_ptr_
          /\ config' = config]_vars

\* a command was forwarded by the pass-through return while the markers of an
\* earlier rollout were stored
C20_Witness ==
    /\ Returned
    /\ path = "pass_through"
    /\ cmd_vel_safe = <<msg>>
    /\ marker_array_ # <<>>
    /\ queries = <<>>

====
